---- MODULE Spec2Model ----
(***************************************************************************)
(* Model of src/app/(admin)/admin/przychodnia/rezerwacje/page.tsx:         *)
(* ClinicBookingsPage, the server-rendered list of a clinic's bookings.    *)
(*                                                                         *)
(* Strings are sequences of symbols.  For numeric strings and LIKE         *)
(* patterns a symbol is one character; for the dot-separated tokens (sort, *)
(* type) and the date strings a symbol is either "." or a dot-free word,   *)
(* so that split(".") is modelled on the symbol sequence.                  *)
(***************************************************************************)
EXTENDS Integers, Sequences, FiniteSets, TLC

\* ------------------------------------------------------------------ bounds
MaxNumLen == 2       \* longest page / per_page string
MaxSortLen == 3      \* longest sort token, in symbols
MaxPatLen == 1       \* longest lastName / email filter string
MaxBookings == 6     \* booking ids 1..MaxBookings exist in the row universe

\* ------------------------------------------------------- JavaScript values
\* A JS number is a finite integer, NaN or +Infinity.
Num(n) == [k |-> "num", v |-> n]
NaN == [k |-> "nan", v |-> 0]
Infinity == [k |-> "inf", v |-> 0]
IsNum(x) == x.k = "num"

\* A query-string value: string | string[] | undefined  (page.tsx:19-23)
Undefined == [t |-> "undefined", s |-> <<>>]
Str(s) == [t |-> "string", s |-> s]
StrArray == [t |-> "object", s |-> <<>>]
IsString(p) == p.t = "string"

\* All sequences over alphabet A of length 0..n
RECURSIVE SeqsUpTo(_, _)
SeqsUpTo(A, n) ==
  IF n = 0 THEN {<<>>}
  ELSE LET shorter == SeqsUpTo(A, n - 1)
       IN shorter \cup {Append(s, a) : s \in {x \in shorter : Len(x) = n - 1}, a \in A}

\* ---------------------------------------------------------------- parseInt
Digits == {"0", "1", "2", "3", "4", "5", "6", "7", "8", "9"}
HexDigits == Digits \cup {"a", "b", "c", "d", "e", "f"}

DigitVal(c) ==
  CASE c = "0" -> 0 [] c = "1" -> 1 [] c = "2" -> 2 [] c = "3" -> 3
    [] c = "4" -> 4 [] c = "5" -> 5 [] c = "6" -> 6 [] c = "7" -> 7
    [] c = "8" -> 8 [] c = "9" -> 9 [] c = "a" -> 10 [] c = "b" -> 11
    [] c = "c" -> 12 [] c = "d" -> 13 [] c = "e" -> 14 [] c = "f" -> 15

RECURSIVE TrimStart(_)
TrimStart(s) == IF s # <<>> /\ Head(s) = " " THEN TrimStart(Tail(s)) ELSE s

\* value of the longest prefix of s made of digits of the radix, or "none"
RECURSIVE DigitPrefix(_, _, _, _)
DigitPrefix(s, radix, acc, seen) ==
  IF s # <<>> /\ Head(s) \in (IF radix = 16 THEN HexDigits ELSE Digits)
  THEN DigitPrefix(Tail(s), radix, acc * radix + DigitVal(Head(s)), TRUE)
  ELSE IF seen THEN Num(acc) ELSE NaN

\* parseInt(string) with no radix argument (ECMAScript 19.2.5)
ParseInt(str) ==
  LET t == TrimStart(str)
      neg == t # <<>> /\ Head(t) = "-"
      u == IF t # <<>> /\ Head(t) \in {"-", "+"} THEN Tail(t) ELSE t
      hex == Len(u) >= 2 /\ u[1] = "0" /\ u[2] \in {"x", "X"}
      r == IF hex THEN DigitPrefix(Tail(Tail(u)), 16, 0, FALSE)
                  ELSE DigitPrefix(u, 10, 0, FALSE)
  IN IF IsNum(r) /\ neg THEN Num(0 - r.v) ELSE r

\* JS arithmetic on the values above
Minus(a, n) == IF IsNum(a) THEN Num(a.v - n) ELSE a
Times(a, b) == IF IsNum(a) /\ IsNum(b) THEN Num(a.v * b.v) ELSE NaN
Gt0(a) == a.k = "inf" \/ (IsNum(a) /\ a.v > 0)

\* Math.floor in place of Math.ceil
FloorDiv(c, l) ==
  IF ~IsNum(l) THEN NaN
  ELSE IF l.v = 0 THEN (IF c = 0 THEN NaN ELSE Infinity)
  ELSE IF l.v > 0 THEN Num(c \div l.v)
  ELSE Num(0 - ((c + (0 - l.v) - 1) \div (0 - l.v)))

\* Math.ceil(c / l) for an integer c >= 0
CeilDiv(c, l) ==
  IF ~IsNum(l) THEN NaN
  ELSE IF l.v = 0 THEN (IF c = 0 THEN NaN ELSE Infinity)
  ELSE IF l.v > 0 THEN Num((c + l.v - 1) \div l.v)
  ELSE Num(0 - (c \div (0 - l.v)))

\* ------------------------------------------------------------ String.split
RECURSIVE Split(_)
Split(s) ==
  IF \A i \in 1..Len(s) : s[i] # "."
  THEN <<s>>
  ELSE LET d == CHOOSE i \in 1..Len(s) : s[i] = "." /\ \A j \in 1..(i - 1) : s[j] # "."
       IN <<SubSeq(s, 1, d - 1)>> \o Split(SubSeq(s, d + 1, Len(s)))

\* ---------------------------------------------------------------- SQL LIKE
RECURSIVE Like(_, _)
Like(s, p) ==
  IF p = <<>> THEN s = <<>>
  ELSE IF Head(p) = "%" THEN Like(s, Tail(p)) \/ (s # <<>> /\ Like(Tail(s), p))
  ELSE s # <<>> /\ (Head(p) = "_" \/ Head(p) = Head(s)) /\ Like(Tail(s), Tail(p))

\* lexicographic order on symbol sequences, by the rank of each symbol
SymbolOrder == <<"a", "b", "checkup", "consult", "surgery">>
Rank(c) == CHOOSE i \in 1..Len(SymbolOrder) : SymbolOrder[i] = c

RECURSIVE LexLeq(_, _)
LexLeq(a, b) ==
  IF a = <<>> THEN TRUE
  ELSE IF b = <<>> THEN FALSE
  ELSE IF Head(a) = Head(b) THEN LexLeq(Tail(a), Tail(b))
  ELSE Rank(Head(a)) < Rank(Head(b))

\* ------------------------------------------------------------ the database
NoUser == "null"
Users == {"u1", "u2", "u3"}

\* clinics: u1 owns clinic 1, u2 owns clinic 2, u3 owns none
ClinicsTable == {[id |-> 1, userId |-> "u1"], [id |-> 2, userId |-> "u2"]}
NoClinic == [id |-> 0, userId |-> NoUser]

\* the columns of bookings this page names
BookingColumns == {"id", "clinicId", "lastName", "email", "type", "createdAt"}
\* keys every JS object inherits from Object.prototype
ObjectPrototypeKeys == {"toString", "constructor", "valueOf", "hasOwnProperty"}

LastNames == << <<"a">>, <<"b", "a">>, <<"b">> >>
Emails == << <<"a", "b">>, <<"b">> >>
BookingTypes == << <<"checkup">>, <<"consult">>, <<"surgery">> >>
CreatedAts == <<2, 1, 3, 2>>
Pick(seq, j) == seq[((j - 1) % Len(seq)) + 1]

\* the booking with id i: odd ids belong to clinic 1, even ids to clinic 2
Row(i) ==
  LET j == (i + 1) \div 2
  IN [id |-> i,
      clinicId |-> ((i - 1) % 2) + 1,
      lastName |-> Pick(LastNames, j),
      email |-> Pick(Emails, j),
      type |-> Pick(BookingTypes, j + 1),
      createdAt |-> Pick(CreatedAts, j)]
AllRows == {Row(i) : i \in 1..MaxBookings}

\* ---------------------------------------------------------------- new Date
\* Date strings: one of the words below is a well-formed date; anything else
\* (the empty string, junk, two words run together) is an Invalid Date,
\* whose time value is NaN.
DayWords == <<"d1", "d2", "d3">>
NewDate(s) ==
  IF Len(s) = 1 /\ \E i \in 1..Len(DayWords) : DayWords[i] = s[1]
  THEN Num(CHOOSE i \in 1..Len(DayWords) : DayWords[i] = s[1])
  ELSE NaN
NoDate == [k |-> "undefined", v |-> 0]

VARIABLES
  pc,            \* position of the request in ClinicBookingsPage
  searchParams,  \* the query parameters of the request
  user,          \* result of currentUser()
  clinic,        \* result of the clinic lookup
  bookingsTable, \* the live bookings relation
  snapshot,      \* the bookings relation as the transaction sees it
  items,         \* page slice returned by the first query
  count,         \* result of the count query
  props,         \* props handed to BookingsTableShell
  pageQuery,     \* limit, offset and order handed to the page query
  calls          \* collaborators called so far, in order

vars == <<pc, searchParams, user, clinic, bookingsTable, snapshot, items, count,
          props, pageQuery, calls>>

NoProps == [rendered |-> FALSE, data |-> <<>>, pageCount |-> NaN, clinicId |-> 0]

\* ------------------------------------------- query parameter interpretation
DefaultLimit == 10

limit ==
  IF IsString(searchParams.per_page) THEN ParseInt(searchParams.per_page.s)
  ELSE Num(DefaultLimit)

\* offset without the "- 1"
offsetOneBased ==
  IF IsString(searchParams.page)
  THEN IF Gt0(ParseInt(searchParams.page.s))
       THEN Times(ParseInt(searchParams.page.s), limit)
       ELSE Num(0)
  ELSE Num(0)

\* offset without the "parseInt(page) > 0" test
offsetUnguarded ==
  IF IsString(searchParams.page)
  THEN Times(Minus(ParseInt(searchParams.page.s), 1), limit)
  ELSE Num(0)

offset ==
  IF IsString(searchParams.page)
  THEN IF Gt0(ParseInt(searchParams.page.s))
       THEN Times(Minus(ParseInt(searchParams.page.s), 1), limit)
       ELSE Num(0)
  ELSE Num(0)

\* [column, order] = sort.split(".") ; a missing element is undefined (<<>>
\* stands for both undefined and "", which are both falsy)
sortParts == IF IsString(searchParams.sort) THEN Split(searchParams.sort.s) ELSE <<>>
column == IF Len(sortParts) >= 1 THEN sortParts[1] ELSE <<>>
order == IF Len(sortParts) >= 2 THEN sortParts[2] ELSE <<>>

types == IF IsString(searchParams.type) THEN Split(searchParams.type.s) ELSE <<>>

fromDay == IF IsString(searchParams.from) THEN NewDate(searchParams.from.s) ELSE NoDate
toDay == IF IsString(searchParams.to) THEN NewDate(searchParams.to.s) ELSE NoDate

\* a Date object is truthy even when invalid; undefined is falsy
Truthy(d) == d.k # "undefined"

\* ---------------------------------------------------------- data retrieval
\* gte / lte against a Date parameter; a comparison with an Invalid Date is
\* never true
\* an exclusive lower end of the date range
GteStrict(x, d) == IsNum(d) /\ x > d.v
Gte(x, d) == IsNum(d) /\ x >= d.v
Lte(x, d) == IsNum(d) /\ x <= d.v

\* like(column, `%${value}%`)
LikeContains(s, value) == Like(s, <<"%">> \o value \o <<"%">>)

InArray(x, list) == \E i \in 1..Len(list) : list[i] = x

\* the page query without the clinic equality
ItemsWhereAnyClinic(row) ==
  /\ IsString(searchParams.lastName) => LikeContains(row.lastName, searchParams.lastName.s)
  /\ Len(types) > 0 => InArray(row.type, types)
  /\ IsString(searchParams.email) => LikeContains(row.email, searchParams.email.s)
  /\ (Truthy(fromDay) /\ Truthy(toDay)) =>
       (Gte(row.createdAt, fromDay) /\ Lte(row.createdAt, toDay))

\* where clause of the page query
ItemsWhere(row) ==
  /\ row.clinicId = clinic.id
  /\ IsString(searchParams.lastName) => LikeContains(row.lastName, searchParams.lastName.s)
  /\ Len(types) > 0 => InArray(row.type, types)
  /\ IsString(searchParams.email) => LikeContains(row.email, searchParams.email.s)
  /\ (Truthy(fromDay) /\ Truthy(toDay)) =>
       (Gte(row.createdAt, fromDay) /\ Lte(row.createdAt, toDay))

\* where clause of the count query
CountWhere(row) ==
  /\ row.clinicId = clinic.id
  /\ IsString(searchParams.lastName) => LikeContains(row.lastName, searchParams.lastName.s)
  /\ Len(types) > 0 => InArray(row.type, types)
  /\ IsString(searchParams.email) => LikeContains(row.email, searchParams.email.s)
  /\ (Truthy(fromDay) /\ Truthy(toDay)) =>
       (Gte(row.createdAt, fromDay) /\ Lte(row.createdAt, toDay))

\* column && column in bookings : the in operator also finds inherited keys
InBookings(col) ==
  col # <<>> /\ Len(col) = 1 /\ col[1] \in (BookingColumns \cup ObjectPrototypeKeys)

orderBy ==
  IF InBookings(column)
  THEN [col |-> column[1], dir |-> IF order = <<"asc">> THEN "asc" ELSE "desc"]
  ELSE [col |-> "createdAt", dir |-> "desc"]

KeyLeq(a, b, col) ==
  IF col \in {"id", "clinicId", "createdAt"} THEN a[col] <= b[col]
  ELSE LexLeq(a[col], b[col])

\* s is in the order ob; ordering by something that is not a column
\* constrains nothing
Ordered(s, ob) ==
  \A i, j \in 1..Len(s) :
    (i < j /\ ob.col \in BookingColumns) =>
      (IF ob.dir = "asc" THEN KeyLeq(s[i], s[j], ob.col) ELSE KeyLeq(s[j], s[i], ob.col))

Arrangements(S) ==
  {f \in [1..Cardinality(S) -> S] : \A i, j \in 1..Cardinality(S) : i # j => f[i] # f[j]}

\* rows with equal keys come back in any order
SortedResults(S, ob) == {s \in Arrangements(S) : Ordered(s, ob)}

Min(a, b) == IF a <= b THEN a ELSE b
Unlimited == 0 - 1
Window(s, off, lim) ==
  SubSeq(s, off + 1, IF lim = Unlimited THEN Len(s) ELSE Min(Len(s), off + lim))

\* What the data store makes of the limit and offset it is handed: a positive
\* limit and a non-negative offset are applied; anything else is either
\* rejected (the query throws) or dropped from the query.
LimitsApplied ==
  IF IsNum(limit) /\ limit.v > 0 THEN {limit.v}
  ELSE IF IsNum(limit) /\ limit.v = 0 THEN {0, Unlimited}
  ELSE {Unlimited}
OffsetsApplied == IF IsNum(offset) /\ offset.v >= 0 THEN {offset.v} ELSE {0}

\* the page query is malformed: the data store may reject it
Malformed ==
  \/ ~(IsNum(limit) /\ limit.v > 0)
  \/ ~(IsNum(offset) /\ offset.v >= 0)
  \/ (Truthy(fromDay) /\ Truthy(toDay) /\ ~(IsNum(fromDay) /\ IsNum(toDay)))
  \/ orderBy.col \notin BookingColumns

\* the count read through db, outside the transaction
CountSourceLive == bookingsTable

\* both queries go through the transaction handle tx
ItemsSource == snapshot
CountSource == snapshot

\* ------------------------------------------------------------- the request
NoParams ==
  [page |-> Undefined, per_page |-> Undefined, sort |-> Undefined, from |-> Undefined,
   to |-> Undefined, lastName |-> Undefined, type |-> Undefined, email |-> Undefined]

Init ==
  /\ pc = "idle"
  /\ searchParams = NoParams
  /\ user = NoUser
  /\ clinic = NoClinic
  /\ bookingsTable = AllRows
  /\ snapshot = {}
  /\ items = <<>>
  /\ count = 0
  /\ props = NoProps
  /\ pageQuery = [limit |-> NaN, offset |-> NaN, orderBy |-> [col |-> "", dir |-> ""]]
  /\ calls = <<>>

\* the framework calls the page with the query parameters of the request
Request(P) ==
  /\ pc = "idle"
  /\ \E sp \in P : searchParams' = sp
  /\ pc' = "currentUser"
  /\ UNCHANGED <<user, clinic, bookingsTable, snapshot, items, count, props, pageQuery, calls>>

\* currentUser() without the redirect
CurrentUserNoRedirect ==
  /\ pc = "currentUser"
  /\ \E u \in Users \cup {NoUser} : user' = u
  /\ pc' = "findClinic"
  /\ calls' = Append(calls, "currentUser")
  /\ UNCHANGED <<searchParams, clinic, bookingsTable, snapshot, items, count, props, pageQuery>>

\* const user = await currentUser(); if (!user) redirect("/logowanie")
CurrentUser ==
  /\ pc = "currentUser"
  /\ \E u \in Users \cup {NoUser} :
       /\ user' = u
       /\ pc' = IF u = NoUser THEN "redirect" ELSE "findClinic"
  /\ calls' = Append(calls, "currentUser")
  /\ UNCHANGED <<searchParams, clinic, bookingsTable, snapshot, items, count, props, pageQuery>>

\* the clinic lookup without the notFound()
FindClinicNoGuard ==
  /\ pc = "findClinic"
  /\ LET found == {c \in ClinicsTable : c.userId = user}
     IN IF found = {} THEN clinic' = NoClinic ELSE \E c \in found : clinic' = c
  /\ pc' = "transaction"
  /\ calls' = Append(calls, "findFirst")
  /\ UNCHANGED <<searchParams, user, bookingsTable, snapshot, items, count, props, pageQuery>>

\* db.query.clinics.findFirst(where userId = user.id); if (!clinic) notFound()
FindClinic ==
  /\ pc = "findClinic"
  /\ LET found == {c \in ClinicsTable : c.userId = user}
     IN IF found = {}
        THEN clinic' = NoClinic /\ pc' = "notFound"
        ELSE (\E c \in found : clinic' = c) /\ pc' = "transaction"
  /\ calls' = Append(calls, "findFirst")
  /\ UNCHANGED <<searchParams, user, bookingsTable, snapshot, items, count, props, pageQuery>>

\* db.transaction(async (tx) => ...): the reads of the transaction see the
\* relation as it is when the transaction starts
BeginTransaction ==
  /\ pc = "transaction"
  /\ snapshot' = bookingsTable
  /\ pc' = "selectItems"
  /\ calls' = Append(calls, "transaction")
  /\ UNCHANGED <<searchParams, user, clinic, bookingsTable, items, count, props, pageQuery>>

\* the page query: where, orderBy, limit, offset
SelectItems ==
  /\ pc = "selectItems"
  /\ \E s \in SortedResults({r \in ItemsSource : ItemsWhere(r)}, orderBy) :
       \E lim \in LimitsApplied : \E off \in OffsetsApplied :
         items' = Window(s, off, lim)
  /\ pageQuery' = [limit |-> limit, offset |-> offset, orderBy |-> orderBy]
  /\ pc' = "selectCount"
  /\ UNCHANGED <<searchParams, user, clinic, bookingsTable, snapshot, count, props, calls>>

\* a malformed page query rejected by the data store: the error propagates
SelectItemsThrows ==
  /\ pc = "selectItems"
  /\ Malformed
  /\ pageQuery' = [limit |-> limit, offset |-> offset, orderBy |-> orderBy]
  /\ pc' = "error"
  /\ UNCHANGED <<searchParams, user, clinic, bookingsTable, snapshot, items, count, props, calls>>

\* the count query
SelectCount ==
  /\ pc = "selectCount"
  /\ count' = Cardinality({r \in CountSource : CountWhere(r)})
  /\ pc' = "render"
  /\ UNCHANGED <<searchParams, user, clinic, bookingsTable, snapshot, items, props, pageQuery, calls>>

\* pageCount = Math.ceil(count / limit); render BookingsTableShell
Render ==
  /\ pc = "render"
  /\ props' = [rendered |-> TRUE, data |-> items, pageCount |-> CeilDiv(count, limit),
               clinicId |-> clinic.id]
  /\ pc' = "rendered"
  /\ calls' = Append(calls, "render")
  /\ UNCHANGED <<searchParams, user, clinic, bookingsTable, snapshot, items, count, pageQuery>>

\* bookings are created and deleted elsewhere in the system
InsertBooking ==
  /\ \E r \in AllRows \ bookingsTable : bookingsTable' = bookingsTable \cup {r}
  /\ UNCHANGED <<pc, searchParams, user, clinic, snapshot, items, count, props, pageQuery, calls>>

DeleteBooking ==
  /\ \E r \in bookingsTable : bookingsTable' = bookingsTable \ {r}
  /\ UNCHANGED <<pc, searchParams, user, clinic, snapshot, items, count, props, pageQuery, calls>>

\* ------------------------------------------------------------ the requests
QueryValues(S) == {Undefined, StrArray} \cup {Str(s) : s \in S}

NumAlphabet == {"0", "1", "2", "-", "x"}
PatAlphabet == {"a", "b", "_"}
SortAlphabet == {"lastName", "createdAt", "toString", "nope", "asc", "desc", "."}
TypeTokens ==
  {<<>>, <<"checkup">>, <<"checkup", ".", "consult">>, <<"checkup", "consult">>,
   <<"surgery", ".">>}
DateStrings == {<<"d1">>, <<"d2">>, <<"d3">>, <<"junk">>}

ParamsPaging ==
  {[NoParams EXCEPT !.page = p, !.per_page = q] :
     p \in QueryValues(SeqsUpTo(NumAlphabet, MaxNumLen)),
     q \in QueryValues(SeqsUpTo(NumAlphabet, MaxNumLen))}

ParamsSort ==
  {[NoParams EXCEPT !.sort = s, !.lastName = n] :
     s \in QueryValues(SeqsUpTo(SortAlphabet, MaxSortLen)),
     n \in {Undefined, Str(<<"a">>)}}

ParamsFilter ==
  {[NoParams EXCEPT !.lastName = n, !.email = e, !.type = t, !.from = f, !.to = g] :
     n \in QueryValues(SeqsUpTo(PatAlphabet, MaxPatLen)),
     e \in {Undefined} \cup {Str(s) : s \in SeqsUpTo({"b", "%"}, MaxPatLen)},
     t \in QueryValues(TypeTokens),
     f \in {Undefined} \cup {Str(s) : s \in DateStrings},
     g \in {Undefined} \cup {Str(s) : s \in DateStrings}}

ParamsFlow ==
  {NoParams,
   [NoParams EXCEPT !.page = Str(<<"2">>), !.per_page = Str(<<"1">>)],
   [NoParams EXCEPT !.per_page = Str(<<"x">>)],
   [NoParams EXCEPT !.lastName = Str(<<"a">>), !.sort = Str(<<"lastName", ".", "asc">>)]}

Steps ==
  \/ CurrentUser
  \/ FindClinic
  \/ BeginTransaction
  \/ SelectItems
  \/ SelectItemsThrows
  \/ SelectCount
  \/ Render

\* requests racing with writers of the bookings relation
Next == Request(ParamsFlow) \/ Steps \/ InsertBooking \/ DeleteBooking
Spec == Init /\ [][Next]_vars

\* requests over the page / per_page strings
NextPaging == Request(ParamsPaging) \/ Steps
SpecPaging == Init /\ [][NextPaging]_vars

\* requests over the sort tokens
NextSort == Request(ParamsSort) \/ Steps
SpecSort == Init /\ [][NextSort]_vars

\* requests over the filter parameters
NextFilter == Request(ParamsFilter) \/ Steps
SpecFilter == Init /\ [][NextFilter]_vars

\* ================================================================== claims
AfterPageQuery == pc \in {"selectCount", "render", "rendered", "error"}
AfterCount == pc \in {"render", "rendered"}
Range(s) == {s[i] : i \in 1..Len(s)}
OwnedClinics == {c \in ClinicsTable : c.userId = user}

\* C1. Tenant isolation: every row of the page slice, and every row handed to
\* the table shell, belongs to a clinic whose userId is the authenticated
\* user, whatever the filter parameters are; the count never exceeds the
\* number of that clinic's rows.
C1_TenantIsolation ==
  /\ pc \in {"selectCount", "render", "rendered"} =>
       /\ clinic \in OwnedClinics
       /\ \A r \in Range(items) : r.clinicId = clinic.id
  /\ AfterCount => count <= Cardinality({r \in snapshot : r.clinicId = clinic.id})
  /\ props.rendered =>
       /\ \A r \in Range(props.data) : \E c \in OwnedClinics : r.clinicId = c.id
       /\ \E c \in OwnedClinics : props.clinicId = c.id

\* a filtered page of u1 is rendered although another clinic holds rows that
\* pass the same lastName filter
C1_Witness ==
  /\ pc = "rendered" /\ user = "u1"
  /\ searchParams.lastName = Str(<<"a">>)
  /\ Len(props.data) >= 2
  /\ \E r \in snapshot : r.clinicId # clinic.id /\ LikeContains(r.lastName, <<"a">>)

\* C2. An authenticated user without a clinic record ends in not-found: no
\* transaction is started and nothing is rendered, whatever the parameters.
C2_NoClinicNotFound ==
  (user \in Users /\ OwnedClinics = {} /\ pc # "findClinic") =>
    /\ pc = "notFound"
    /\ ~props.rendered
    /\ "transaction" \notin Range(calls)
    /\ "render" \notin Range(calls)
    /\ snapshot = {}

C2_Witness ==
  pc = "notFound" /\ user = "u3" /\ searchParams.lastName = Str(<<"a">>)

\* C3. No authenticated user: redirect, with no clinic lookup, transaction or
\* render.  In general the collaborators are called in the order auth lookup,
\* clinic lookup, transaction, render, each only after the previous succeeded.
CallOrder == <<"currentUser", "findFirst", "transaction", "render">>
C3_SequentialOrder ==
  /\ Len(calls) <= Len(CallOrder) /\ calls = SubSeq(CallOrder, 1, Len(calls))
  /\ (Len(calls) >= 1 /\ user = NoUser) => (pc = "redirect" /\ Len(calls) = 1)
  /\ pc = "redirect" => (user = NoUser /\ ~props.rendered /\ snapshot = {})
  /\ Len(calls) >= 2 => user \in Users
  /\ Len(calls) >= 3 => clinic \in OwnedClinics
  /\ Len(calls) >= 4 => (pc = "rendered" /\ props.rendered)
  /\ props.rendered => Len(calls) = 4

C3_Witness ==
  pc = "redirect" /\ calls = <<"currentUser">> /\ searchParams.per_page = Str(<<"x">>)

\* value is a substring of s
Contains(s, value) ==
  \E i \in 0..(Len(s) - Len(value)) : SubSeq(s, i + 1, i + Len(value)) = value

\* the date-range condition: applied when both from and to are strings, and
\* then inclusive on both ends
DateApplied == IsString(searchParams.from) /\ IsString(searchParams.to)
InRange(r) ==
  /\ IsNum(NewDate(searchParams.from.s)) /\ IsNum(NewDate(searchParams.to.s))
  /\ NewDate(searchParams.from.s).v <= r.createdAt
  /\ r.createdAt <= NewDate(searchParams.to.s).v

\* C4. Both queries apply one predicate: the current clinic, lastName
\* contained in the row's lastName, type in the dot-separated list, email
\* contained in the row's email, and the date-range condition.  With the
\* default limit the page slice holds exactly the rows satisfying it and
\* count is their number.
ClaimedMatch(r) ==
  /\ r.clinicId = clinic.id
  /\ IsString(searchParams.lastName) => Contains(r.lastName, searchParams.lastName.s)
  /\ Len(types) > 0 => InArray(r.type, types)
  /\ IsString(searchParams.email) => Contains(r.email, searchParams.email.s)
  /\ DateApplied => InRange(r)
C4_SameFilterPredicate ==
  AfterCount =>
    /\ Range(items) = {r \in snapshot : ClaimedMatch(r)}
    /\ count = Cardinality({r \in snapshot : ClaimedMatch(r)})

\* ---- decimal strings, read independently of ParseInt
RECURSIVE DecValue(_)
DecValue(s) == IF s = <<>> THEN 0 ELSE 10 * DecValue(SubSeq(s, 1, Len(s) - 1)) + DigitVal(s[Len(s)])
IsDecimal(s) ==
  /\ s # <<>>
  /\ \A i \in 1..Len(s) : s[i] \in Digits
  /\ (Len(s) > 1 => s[1] # "0")

\* C5. For decimal strings page >= 1 and per_page > 0 the offset handed to
\* the page query is (page - 1) * per_page, with 10 for an absent per_page;
\* for a page that is absent, not a single string, or parses to a
\* non-positive number, the offset is 0.
C5_OffsetDerivation ==
  AfterPageQuery =>
    LET p == searchParams.page
        q == searchParams.per_page
    IN /\ (IsString(p) /\ IsDecimal(p.s) /\ DecValue(p.s) >= 1 /\ q = Undefined) =>
            pageQuery.offset = Num((DecValue(p.s) - 1) * 10)
       /\ (IsString(p) /\ IsDecimal(p.s) /\ DecValue(p.s) >= 1
             /\ IsString(q) /\ IsDecimal(q.s) /\ DecValue(q.s) > 0) =>
            pageQuery.offset = Num((DecValue(p.s) - 1) * DecValue(q.s))
       /\ (~IsString(p) \/ (IsNum(ParseInt(p.s)) /\ ParseInt(p.s).v <= 0)) =>
            pageQuery.offset = Num(0)

\* page 2 of size 2 over the three bookings of clinic 1: offset 2, one row
C5_Witness ==
  /\ pc = "rendered" /\ user = "u1"
  /\ searchParams.page = Str(<<"2">>) /\ searchParams.per_page = Str(<<"2">>)
  /\ pageQuery.offset = Num(2)
  /\ Len(props.data) = 1

\* C6. limit is 10 when per_page is no string and the parsed per_page
\* otherwise; for limit > 0 the pageCount handed to the table shell is the
\* least n with n * limit >= count, count being the number of matching rows,
\* and the page slice holds at most limit rows.
C6_PageCount ==
  /\ AfterPageQuery =>
       /\ ~IsString(searchParams.per_page) => pageQuery.limit = Num(10)
       /\ (IsString(searchParams.per_page) /\ IsDecimal(searchParams.per_page.s)) =>
            pageQuery.limit = Num(DecValue(searchParams.per_page.s))
  /\ (props.rendered /\ IsNum(pageQuery.limit) /\ pageQuery.limit.v > 0) =>
       /\ count = Cardinality({r \in snapshot : r.clinicId = clinic.id})
       /\ IsNum(props.pageCount)
       /\ props.pageCount.v >= 0
       /\ props.pageCount.v * pageQuery.limit.v >= count
       /\ (props.pageCount.v - 1) * pageQuery.limit.v < count
       /\ Len(props.data) <= pageQuery.limit.v

\* three bookings in pages of two: two pages
C6_Witness ==
  /\ pc = "rendered"
  /\ searchParams.per_page = Str(<<"2">>) /\ searchParams.page = Undefined
  /\ count = 3
  /\ props.pageCount = Num(2)
  /\ Len(props.data) = 2

\* C7. The order is the column part of the sort token when that is a booking
\* field (ascending exactly for the direction "asc"), and creation time
\* descending when sort is absent or the column part is no booking field.
ClaimedOrder ==
  IF Len(column) = 1 /\ column[1] \in BookingColumns
  THEN [col |-> column[1], dir |-> IF order = <<"asc">> THEN "asc" ELSE "desc"]
  ELSE [col |-> "createdAt", dir |-> "desc"]
C7_SortSelection ==
  /\ AfterPageQuery => pageQuery.orderBy = ClaimedOrder
  /\ AfterCount => Ordered(items, ClaimedOrder)

\* C8. Snapshot consistency: whatever the writers do, there is one state S of
\* the bookings relation such that the page slice is a limit/offset window of
\* the ordered matching rows of S and count is the number of matching rows of
\* S; the table shell gets that slice and the page count of that count.
ConsistentWith(S) ==
  /\ count = Cardinality({r \in S : ItemsWhere(r)})
  /\ \E s \in SortedResults({r \in S : ItemsWhere(r)}, pageQuery.orderBy) :
       \E lim \in LimitsApplied : \E off \in OffsetsApplied :
         items = Window(s, off, lim)
C9_NaNOffsetOriginal ==
  AfterPageQuery =>
    (((IsString(searchParams.page) /\ ParseInt(searchParams.page.s) = NaN)
      \/ (IsString(searchParams.per_page) /\ ParseInt(searchParams.per_page.s) = NaN))
     => pageQuery.offset = NaN)

\* C9 as amended: the offset is NaN exactly when per_page is a string that
\* does not parse to a number and page is a string that parses to a positive
\* number; a page string that does not parse to a number gives offset 0.
C9_NaNOffset ==
  AfterPageQuery =>
    /\ pageQuery.offset = NaN <=>
         /\ IsString(searchParams.per_page) /\ ParseInt(searchParams.per_page.s) = NaN
         /\ IsString(searchParams.page) /\ Gt0(ParseInt(searchParams.page.s))
    /\ (IsString(searchParams.page) /\ ParseInt(searchParams.page.s) = NaN) =>
         pageQuery.offset = Num(0)
    /\ (IsString(searchParams.per_page) /\ ParseInt(searchParams.per_page.s) = NaN) =>
         pageQuery.limit = NaN

C9_Witness ==
  /\ AfterPageQuery
  /\ searchParams.page = Str(<<"1">>) /\ searchParams.per_page = Str(<<"x">>)
  /\ pageQuery.offset = NaN

\* C10. The date restriction applies in both queries exactly when from and to
\* are both strings, and is then from <= createdAt <= to; otherwise rows of
\* any creation time are returned and counted.
OtherFilters(r) ==
  /\ r.clinicId = clinic.id
  /\ IsString(searchParams.lastName) => LikeContains(r.lastName, searchParams.lastName.s)
  /\ Len(types) > 0 => InArray(r.type, types)
  /\ IsString(searchParams.email) => LikeContains(r.email, searchParams.email.s)
C10_DateRange ==
  AfterCount =>
    LET expected == {r \in snapshot : OtherFilters(r) /\ (DateApplied => InRange(r))}
    IN /\ Range(items) = expected
       /\ count = Cardinality(expected)

\* from d1 to d2 keeps the bookings created at 1 and at 2 and drops the one
\* created at 3
C10_Witness ==
  /\ pc = "rendered" /\ user = "u1"
  /\ searchParams.from = Str(<<"d1">>) /\ searchParams.to = Str(<<"d2">>)
  /\ searchParams.lastName = Undefined /\ searchParams.type = Undefined
  /\ searchParams.email = Undefined
  /\ {r.createdAt : r \in Range(props.data)} = {1, 2}
  /\ count = 2

====
